---- MODULE Spec2Model ----
(***************************************************************************)
(* MedAssist workflow router (agent.py) and the conversation memory it     *)
(* writes to (conversation_memory.py).                                     *)
(*                                                                         *)
(* One process_query call threads an AgentState record through the         *)
(* LangGraph nodes classifier, query_planner, kg_executor, synthesizer,    *)
(* rag_fallback, hybrid and escalation.  Every node is one atomic action:  *)
(* the node body followed by the conditional edge that LangGraph evaluates *)
(* on the state the node returned.  The external collaborators (LLM,       *)
(* Neo4j, vector store) are nondeterministic: each call returns or raises. *)
(*                                                                         *)
(* Spec names of the states: Classify = classifier, Plan = query_planner,  *)
(* Execute = kg_executor, Synthesize = synthesizer, RagFallback =          *)
(* rag_fallback, Hybrid = hybrid, Escalate = escalation, Done = END.       *)
(***************************************************************************)
EXTENDS Integers, Sequences, FiniteSets, TLC

VARIABLES
    connector,      \* self.connector: "none" (connect failed) or "up"
    vector_store,   \* self.vector_store: "none" or "up"
    memory,         \* self.memory: "none" or "up"
    conversations,  \* self.memory.conversations: session id -> session data
    pc,             \* "idle", the node about to run, "END", "returned" or "raised"
    state,          \* the AgentState of the process_query call
    session_id,     \* process_query's session_id argument ("" = None)
    response,       \* the value process_query returned
    visited,        \* history: the nodes entered by the call, in order
    lock,           \* self.memory.lock: "" (free) or the thread that holds it
    disk,           \* persist_dir: session id -> the snapshot file {sid}.json
    threads,        \* thread -> its position in the store operation it runs
    nops,           \* the number of store operations called so far
    acquired,       \* history: session id -> the messages whose add_message
                    \* took the lock since the session was last (re)created
    last,           \* history: the call a single caller made last, with
                    \* its arguments, the session as the call found it and
                    \* the value it returned
    requests,       \* rate_limiter.requests: identifier -> the ages of the
                    \* entries (now - ts, in half seconds), oldest first
    workers,        \* request thread -> its position in is_allowed
    ncalls,         \* the number of is_allowed calls made so far
    granted,        \* history: identifier -> the ages of the requests that
                    \* were allowed during the last minute
    verdict         \* history: the last value is_allowed returned

\* the agent's own fields and the state of its one process_query call
agentvars == <<connector, vector_store, memory, pc, state, session_id,
               response, visited>>

\* the state of the store when threads share it
memvars == <<lock, disk, threads, nops, acquired, last>>

\* the state of the rate limiter and of the threads calling it
ratevars == <<requests, workers, ncalls, granted, verdict>>

vars == <<connector, vector_store, memory, conversations, pc, state,
          session_id, response, visited, lock, disk, threads, nops,
          acquired, last, requests, workers, ncalls, granted, verdict>>

----------------------------------------------------------------------------
(* Bounds of the model *)

MaxRows == 2
MaxDocs == 1
\* store operations called in one behaviour of the shared store
MaxOps == 3
\* self.max_history of the shared store (a constructor argument)
MaxHistory == 2
\* is_allowed calls made in one behaviour of the rate limiter
MaxCalls == 4

(* Program constants *)

\* config.CONFIDENCE_THRESHOLD = 0.7; confidences are modelled in hundredths
CONFIDENCE_THRESHOLD == 70
\* the classifier's default confidence 0.3 on failure, in hundredths
DEFAULT_CONFIDENCE == 30
\* the literal 2 of route_after_execution
maxRetries == 2
\* ConversationMemory(max_history=10, ...)
max_history == 10
\* n_results of the two vector store searches
RAG_N_RESULTS == 3
HYBRID_N_RESULTS == 2
\* kg_results[:5] in the hybrid summary, results[:3] in the hospital template
HYBRID_TOP == 5
TEMPLATE_TOP == 3
\* ConversationMemory(ttl_minutes=1)
ttl_minutes == 1
\* get_context_string(session_id, last_n=4) in process_query
CONTEXT_LAST_N == 4
\* RateLimiter(requests_per_minute=3) of test_separate_identifiers_independent
requests_per_minute == 3
\* timedelta(minutes=1), in half seconds
WINDOW == 120
\* `return False, 60` when the identifier has no entry
DEFAULT_RETRY == 60

----------------------------------------------------------------------------
(* Inputs *)

Min(a, b) == IF a <= b THEN a ELSE b

\* the intents of the classifier prompt, and one the prompt does not list
Intents == {"coverage_check", "hospital_finder", "claim_history",
            "policy_utilization", "medication_coverage", "escalation",
            "general_question", "greeting", "other"}

Confidences == {30, 69, 70, 90}

Queries == {"Is diabetes covered at Apollo?", "What is the policy for diabetes in Mumbai?"}

\* "policy" in user_query.lower()
MentionsPolicy(q) == q = "What is the policy for diabetes in Mumbai?"

\* "" stands for a falsy customer id (None, or the empty string the CLI passes)
CustomerIds == {"", "CUST0001"}

SessionIds == {"s1"}

\* A parameter value is "ABSENT" (no such key), "NULL" (JSON null) or a string.
\* isdict = FALSE stands for a "parameters" value that is not an object (null).
EmptyParams ==
    [isdict |-> TRUE, treatment_name |-> "ABSENT", hospital_name |-> "ABSENT",
     medication_name |-> "ABSENT", city |-> "ABSENT", min_discount |-> "ABSENT"]

ParamChoices ==
    { EmptyParams,
      [EmptyParams EXCEPT !.isdict = FALSE],
      [isdict |-> TRUE, treatment_name |-> "NULL", hospital_name |-> "NULL",
       medication_name |-> "NULL", city |-> "NULL", min_discount |-> "NULL"],
      [isdict |-> TRUE, treatment_name |-> "diabetes", hospital_name |-> "Apollo",
       medication_name |-> "Metformin", city |-> "Mumbai", min_discount |-> "10"],
      [isdict |-> TRUE, treatment_name |-> "flu", hospital_name |-> "NULL",
       medication_name |-> "NULL", city |-> "Mumbai", min_discount |-> "ten"] }

\* str(e) of a caught exception: it may be the empty string
ErrMsgs == {"", "err"}

\* rows are opaque records; a result list is identified by its row numbers
RowLists == { [i \in 1..n |-> i] : n \in 0..MaxRows }

Truthy(v) == v \notin {"ABSENT", "NULL", ""}

----------------------------------------------------------------------------
(* Responses: the text of final_response, by the place that produced it,   *)
(* the rows and the number of document snippets it was built from.         *)

Resp(kind, rows, docs) == [kind |-> kind, rows |-> rows, docs |-> docs]

NoResponse == Resp("", <<>>, 0)

Take(s, n) == SubSeq(s, 1, Min(n, Len(s)))

----------------------------------------------------------------------------
(* process_query: the initial AgentState.  needs_hybrid and rag_results    *)
(* are not keys of the initial dict; every read of needs_hybrid is         *)
(* state.get("needs_hybrid", False), so the missing key is FALSE here.     *)
(* exc is not a key of AgentState: it records an exception that left the   *)
(* node uncaught and so propagates out of workflow.invoke.                 *)

initial_state(user_query, customer_id) ==
    [user_query |-> user_query,
     customer_id |-> customer_id,
     intent |-> "",
     confidence |-> 0,
     needs_hybrid |-> FALSE,
     parameters |-> EmptyParams,
     cypher_query |-> "",
     cypher_params |-> {},
     query_results |-> <<>>,
     rag_results |-> 0,
     final_response |-> NoResponse,
     error |-> "",
     requires_escalation |-> FALSE,
     attempt_count |-> 0,
     exc |-> FALSE]

----------------------------------------------------------------------------
(* classifier_node.  out.kind is                                           *)
(*   "ok"      the LLM answered with JSON holding intent and a numeric     *)
(*             confidence;                                                 *)
(*   "raise"   the LLM call raised, the text was not JSON, or a key was    *)
(*             missing: nothing of the result reached the state;           *)
(*   "badconf" the JSON held a confidence that the :.2f format rejects:    *)
(*             parameters and needs_hybrid were already stored when the    *)
(*             format raised.                                              *)

ClassifierOutcomes ==
    [kind : {"ok"}, msg : {""}, intent : Intents, confidence : Confidences,
     parameters : ParamChoices, needs_hybrid : BOOLEAN]
    \cup
    [kind : {"raise"}, msg : ErrMsgs, intent : {""}, confidence : {0},
     parameters : {EmptyParams}, needs_hybrid : {FALSE}]
    \cup
    [kind : {"badconf"}, msg : {"err"}, intent : {"hospital_finder"}, confidence : {0},
     parameters : ParamChoices, needs_hybrid : BOOLEAN]

classifier_node(s, out) ==
    CASE out.kind = "ok" ->
            [s EXCEPT !.intent = out.intent,
                      !.confidence = out.confidence,
                      !.parameters = out.parameters,
                      !.needs_hybrid = out.needs_hybrid]
      [] out.kind = "badconf" ->
            [s EXCEPT !.parameters = out.parameters,
                      !.needs_hybrid = out.needs_hybrid,
                      !.intent = "general_question",
                      !.confidence = DEFAULT_CONFIDENCE,
                      !.error = out.msg]
      [] OTHER ->
            [s EXCEPT !.intent = "general_question",
                      !.confidence = DEFAULT_CONFIDENCE,
                      !.error = out.msg]

GeneralIntents == {"general_question", "greeting", "policy_utilization", "coverage_check"}

\* mutant: the confidence check is missing
route_after_classification_noconf(s) ==
    IF s.intent = "escalation" THEN "escalation"
    ELSE IF s.needs_hybrid THEN "hybrid"
    ELSE IF s.intent \in GeneralIntents THEN "rag_fallback"
    ELSE IF s.customer_id = "" /\ s.intent \notin GeneralIntents THEN "escalation"
    ELSE "query_planner"

\* mutant: the hybrid check comes before the escalation check
route_after_classification_hybridfirst(s) ==
    IF s.needs_hybrid THEN "hybrid"
    ELSE IF s.intent = "escalation" THEN "escalation"
    ELSE IF s.confidence < CONFIDENCE_THRESHOLD THEN "rag_fallback"
    ELSE IF s.intent \in GeneralIntents THEN "rag_fallback"
    ELSE IF s.customer_id = "" /\ s.intent \notin GeneralIntents THEN "escalation"
    ELSE "query_planner"

\* mutant: the customer id check is missing
route_after_classification_nocust(s) ==
    IF s.intent = "escalation" THEN "escalation"
    ELSE IF s.needs_hybrid THEN "hybrid"
    ELSE IF s.confidence < CONFIDENCE_THRESHOLD THEN "rag_fallback"
    ELSE IF s.intent \in GeneralIntents THEN "rag_fallback"
    ELSE "query_planner"

\* mutant: only general questions and greetings are sent to RAG, so that
\* coverage_check and policy_utilization reach the planner
route_after_classification_structured(s) ==
    IF s.intent = "escalation" THEN "escalation"
    ELSE IF s.needs_hybrid THEN "hybrid"
    ELSE IF s.confidence < CONFIDENCE_THRESHOLD THEN "rag_fallback"
    ELSE IF s.intent \in {"general_question", "greeting"} THEN "rag_fallback"
    ELSE IF s.customer_id = "" /\ s.intent \notin GeneralIntents THEN "escalation"
    ELSE "query_planner"

route_after_classification(s) ==
    IF s.intent = "escalation" THEN "escalation"
    ELSE IF s.needs_hybrid THEN "hybrid"
    ELSE IF s.confidence < CONFIDENCE_THRESHOLD THEN "rag_fallback"
    ELSE IF s.intent \in GeneralIntents THEN "rag_fallback"
    ELSE IF s.customer_id = "" /\ s.intent \notin GeneralIntents THEN "escalation"
    ELSE "query_planner"

----------------------------------------------------------------------------
(* query_planner_node *)

\* keyword -> ICD-10 code; a name outside the table maps to None ("")
_map_treatment_name_to_code(treatment_name) ==
    CASE treatment_name = "diabetes" -> "E11"
      [] treatment_name \in {"hypertension", "blood pressure"} -> "I10"
      [] treatment_name \in {"knee", "surgery"} -> "M17"
      [] treatment_name = "asthma" -> "J45"
      [] OTHER -> ""

\* int(min_discount) succeeds
IsInt(v) == v \in {"10", "0"}

\* The statements inside the try block raise: parameters.get on a value that
\* is not a dict, None.lower() on a null treatment_name, int() on a string
\* that is not a number.
PlannerRaises(s) ==
    LET p == s.parameters IN
    CASE s.intent = "coverage_check" -> ~p.isdict \/ p.treatment_name = "NULL"
      [] s.intent = "hospital_finder" ->
            \/ ~p.isdict
            \/ s.customer_id # "" /\ Truthy(p.min_discount) /\ ~IsInt(p.min_discount)
      [] s.intent = "medication_coverage" -> ~p.isdict
      [] OTHER -> FALSE

\* The query the planner builds, "" when it builds none
PlannedQuery(s) ==
    LET p == s.parameters
        hasCustomer == s.customer_id # ""
        name == IF p.treatment_name = "ABSENT" THEN "" ELSE p.treatment_name
    IN
    CASE s.intent = "coverage_check" ->
            IF _map_treatment_name_to_code(name) # "" /\ hasCustomer
            THEN "coverage_check" ELSE ""
      [] s.intent = "hospital_finder" ->
            IF ~hasCustomer THEN ""
            ELSE IF Truthy(p.city) /\ Truthy(p.min_discount) THEN "hospital_finder_city_discount"
            ELSE IF Truthy(p.city) THEN "hospital_finder_city"
            ELSE IF Truthy(p.min_discount) THEN "hospital_finder_discount"
            ELSE "hospital_finder"
      [] s.intent = "claim_history" -> IF hasCustomer THEN "claim_history" ELSE ""
      [] s.intent = "policy_utilization" -> IF hasCustomer THEN "policy_utilization" ELSE ""
      [] s.intent = "medication_coverage" ->
            IF hasCustomer /\ Truthy(p.medication_name) THEN "medication_coverage" ELSE ""
      [] OTHER -> ""

PlannedParams(s) ==
    LET p == s.parameters IN
    CASE s.intent = "coverage_check" -> {"customer_id", "treatment_code", "hospital_name"}
      [] s.intent = "hospital_finder" ->
            {"customer_id"}
            \cup (IF Truthy(p.city) THEN {"city"} ELSE {})
            \cup (IF Truthy(p.min_discount) THEN {"min_discount"} ELSE {})
      [] s.intent = "claim_history" -> {"customer_id", "limit"}
      [] s.intent = "policy_utilization" -> {"customer_id"}
      [] s.intent = "medication_coverage" -> {"customer_id", "medication_name"}
      [] OTHER -> {}

\* mutant: the planner zeroes the attempt counter whenever it runs
query_planner_node_resets(s) ==
    IF PlannerRaises(s) THEN [s EXCEPT !.error = "err", !.attempt_count = 0]
    ELSE IF PlannedQuery(s) # ""
         THEN [s EXCEPT !.cypher_query = PlannedQuery(s),
                        !.cypher_params = PlannedParams(s),
                        !.attempt_count = 0]
         ELSE [s EXCEPT !.error = "Could not generate Cypher query", !.attempt_count = 0]

\* mutant: the planner starts every attempt from a clean slate (it clears
\* the error of the failed execution and the attempt counter)
query_planner_node_clean_slate(s) ==
    IF PlannerRaises(s) THEN [s EXCEPT !.error = "err", !.attempt_count = 0]
    ELSE IF PlannedQuery(s) # ""
         THEN [s EXCEPT !.cypher_query = PlannedQuery(s),
                        !.cypher_params = PlannedParams(s),
                        !.error = "",
                        !.attempt_count = 0]
         ELSE [s EXCEPT !.error = "Could not generate Cypher query", !.attempt_count = 0]

query_planner_node(s) ==
    IF PlannerRaises(s) THEN [s EXCEPT !.error = "err"]
    ELSE IF PlannedQuery(s) # ""
         THEN [s EXCEPT !.cypher_query = PlannedQuery(s),
                        !.cypher_params = PlannedParams(s)]
         ELSE [s EXCEPT !.error = "Could not generate Cypher query"]

\* mutant: the planner's outcome is not looked at
route_after_planning_always_executes(s) == "kg_executor"

route_after_planning(s) ==
    IF s.error # "" THEN "rag_fallback"
    ELSE IF s.cypher_query = "" THEN "rag_fallback"
    ELSE "kg_executor"

----------------------------------------------------------------------------
(* kg_executor_node.  conn is self.connector; out is what execute_query    *)
(* does when it is called on a live connector: it returns rows or raises.  *)
(* With self.connector = None the attribute access raises inside the try.  *)

ExecOutcomes ==
    [kind : {"rows"}, rows : RowLists, msg : {""}]
    \cup [kind : {"raise"}, rows : {<<>>}, msg : ErrMsgs]

kg_executor_node(s, conn, out) ==
    IF s.cypher_query = "" THEN [s EXCEPT !.error = "No query to execute"]
    ELSE IF conn = "none"
         THEN [s EXCEPT !.error = "err", !.attempt_count = s.attempt_count + 1]
    ELSE IF out.kind = "rows" THEN [s EXCEPT !.query_results = out.rows]
    ELSE [s EXCEPT !.error = out.msg, !.attempt_count = s.attempt_count + 1]

route_after_execution(s) ==
    IF s.error # ""
    THEN IF s.attempt_count < maxRetries THEN "query_planner" ELSE "rag_fallback"
    ELSE IF s.query_results = <<>> THEN "rag_fallback"
    ELSE "synthesizer"

----------------------------------------------------------------------------
(* synthesizer_node; gen is the outcome of the LLM call: "ok" or "raise" *)

GenOutcomes == {"ok", "raise"}

\* mutant: every intent gets the row count
_generate_fallback_response_count(intent, results) ==
    IF results = <<>> THEN Resp("fallback_no_info", <<>>, 0)
    ELSE Resp("template_count", results, 0)

_generate_fallback_response(intent, results) ==
    IF results = <<>> THEN Resp("fallback_no_info", <<>>, 0)
    ELSE IF intent = "coverage_check" THEN Resp("template_coverage", <<results[1]>>, 0)
    ELSE IF intent = "hospital_finder"
         THEN Resp("template_hospitals", Take(results, TEMPLATE_TOP), 0)
    ELSE Resp("template_count", results, 0)

\* mutant: the generation call is not wrapped in try/except
synthesizer_node_notry(s, gen) ==
    IF s.query_results = <<>>
    THEN [s EXCEPT !.final_response = Resp("synth_no_info", <<>>, 0)]
    ELSE IF gen = "ok"
         THEN [s EXCEPT !.final_response = Resp("synth_generated", s.query_results, 0)]
         ELSE [s EXCEPT !.exc = TRUE]

synthesizer_node(s, gen) ==
    IF s.query_results = <<>>
    THEN [s EXCEPT !.final_response = Resp("synth_no_info", <<>>, 0)]
    ELSE IF gen = "ok"
         THEN [s EXCEPT !.final_response = Resp("synth_generated", s.query_results, 0)]
         ELSE [s EXCEPT !.final_response =
                            _generate_fallback_response(s.intent, s.query_results)]

----------------------------------------------------------------------------
(* rag_fallback_node.  vs is self.vector_store; search is the outcome of   *)
(* vector_store.search, gen1 of the generation from the retrieved context, *)
(* gen2 of the general-knowledge generation.                               *)

SearchOutcomes(k) ==
    [kind : {"docs"}, n : 0..Min(k, MaxDocs)] \cup [kind : {"raise"}, n : {0}]

\* the calls the node makes: one search when there is a vector store, the
\* generation from the context when the search returned documents, the
\* general-knowledge generation unless the former returned
rag_fallback_calls(vs, search, gen1) ==
    LET grounded == vs # "none" /\ search.kind = "docs" /\ search.n > 0
    IN [searches |-> IF vs # "none" THEN 1 ELSE 0,
        generations |-> (IF grounded THEN 1 ELSE 0)
                        + (IF grounded /\ gen1 = "ok" THEN 0 ELSE 1)]

\* mutant: no general-knowledge generation after a failure
rag_fallback_node_no_general(s, vs, search, gen1, gen2) ==
    IF vs # "none" /\ search.kind = "docs" /\ search.n > 0 /\ gen1 = "ok"
    THEN [s EXCEPT !.final_response = Resp("rag_documents", <<>>, search.n)]
    ELSE [s EXCEPT !.final_response = Resp("rag_trouble", <<>>, 0)]

rag_fallback_node(s, vs, search, gen1, gen2) ==
    IF vs # "none" /\ search.kind = "docs" /\ search.n > 0 /\ gen1 = "ok"
    THEN [s EXCEPT !.final_response = Resp("rag_documents", <<>>, search.n)]
    ELSE IF gen2 = "ok"
         THEN [s EXCEPT !.final_response = Resp("rag_general", <<>>, 0)]
         ELSE [s EXCEPT !.final_response = Resp("rag_trouble", <<>>, 0)]

----------------------------------------------------------------------------
(* hybrid_node.  kg is the outcome of execute_query, search of the vector  *)
(* store search, gen of the final generation.                              *)

HybridIntents == {"hospital_finder", "coverage_check", "policy_utilization"}

\* Step 1: the rows of the structured query; [] when the connector is
\* missing, the query is not attempted, or anything in the try block raises
HybridKgResults(s, conn, kg) ==
    LET p == s.parameters IN
    IF /\ conn # "none"
       /\ p.isdict
       /\ s.intent \in HybridIntents
       /\ Truthy(p.city)
       /\ (Truthy(p.min_discount) => IsInt(p.min_discount))
       /\ kg.kind = "rows"
    THEN kg.rows
    ELSE <<>>

\* Step 2: the number of snippets joined into rag_context; 0 when the store
\* is missing or anything in the try block raises (parameters.get on a
\* non-dict is reached only when the query does not mention "policy")
HybridRagDocs(s, vs, search) ==
    IF /\ vs # "none"
       /\ (MentionsPolicy(s.user_query) \/ s.parameters.isdict)
       /\ search.kind = "docs"
    THEN search.n
    ELSE 0

\* mutant: the fallback combines the two sources even when both are empty
hybrid_node_always_raw(s, conn, vs, kg, search, gen) ==
    LET kg_results == HybridKgResults(s, conn, kg)
        docs == HybridRagDocs(s, vs, search)
    IN
    IF gen = "ok"
    THEN [s EXCEPT !.final_response =
                       Resp("hybrid_generated", Take(kg_results, HYBRID_TOP), docs),
                   !.query_results = kg_results,
                   !.rag_results = docs]
    ELSE [s EXCEPT !.final_response =
                       Resp("hybrid_raw", Take(kg_results, HYBRID_TOP), docs)]

hybrid_node(s, conn, vs, kg, search, gen) ==
    LET kg_results == HybridKgResults(s, conn, kg)
        docs == HybridRagDocs(s, vs, search)
    IN
    IF gen = "ok"
    THEN [s EXCEPT !.final_response =
                       Resp("hybrid_generated", Take(kg_results, HYBRID_TOP), docs),
                   !.query_results = kg_results,
                   !.rag_results = docs]
    ELSE IF docs > 0 \/ kg_results # <<>>
         THEN [s EXCEPT !.final_response =
                            Resp("hybrid_raw", Take(kg_results, HYBRID_TOP), docs)]
         ELSE [s EXCEPT !.final_response = Resp("hybrid_incomplete", <<>>, 0)]

----------------------------------------------------------------------------
(* escalation_node *)

\* mutant: the response is written, the flag is not
escalation_node_unflagged(s) ==
    [s EXCEPT !.final_response = Resp("escalation", <<>>, 0)]

escalation_node(s) ==
    [s EXCEPT !.final_response = Resp("escalation", <<>>, 0),
              !.requires_escalation = TRUE]

----------------------------------------------------------------------------
(* ConversationMemory, as process_query uses it from a single thread.      *)
(* Timestamps are left out here.                                           *)

NoMeta == [intent |-> "", confidence |-> 0]

Message(role, content, metadata) ==
    [role |-> role, content |-> content, metadata |-> metadata]

NoSession == [exists |-> FALSE, customer_id |-> "", messages |-> <<>>]

get_active_sessions(convs) == { sid \in SessionIds : convs[sid].exists }

create_session(convs, sid, customer_id) ==
    [convs EXCEPT ![sid] = [exists |-> TRUE, customer_id |-> customer_id,
                            messages |-> <<>>]]

\* messages[-max_history:]
Trim(msgs) ==
    IF Len(msgs) > max_history
    THEN SubSeq(msgs, Len(msgs) - max_history + 1, Len(msgs))
    ELSE msgs

\* add_message on a session that exists (process_query creates it first)
add_message(convs, sid, role, content, metadata) ==
    [convs EXCEPT ![sid].messages = Trim(Append(@, Message(role, content, metadata)))]

----------------------------------------------------------------------------
(* The store before the call: no session, or a session holding the turns   *)
(* of earlier process_query calls (none, one, or a full history).          *)

Text(q) == Resp(q, <<>>, 0)

PriorAnswers == <<"rag_general", "escalation", "rag_trouble", "hybrid_incomplete",
                  "synth_no_info">>

PriorTurn(i) ==
    << Message("user", Text("Is diabetes covered at Apollo?"),
               [intent |-> "greeting", confidence |-> 90]),
       Message("assistant", Resp(PriorAnswers[i], <<>>, 0), NoMeta) >>

RECURSIVE History(_)
History(k) == IF k = 0 THEN <<>> ELSE History(k - 1) \o PriorTurn(k)

PriorTurnChoices == {0, 1, max_history \div 2}

PriorSessions ==
    {NoSession} \cup
    { [exists |-> TRUE, customer_id |-> "CUST0001", messages |-> History(k)] :
        k \in PriorTurnChoices }

----------------------------------------------------------------------------
(* ConversationMemory as a store that threads share.  A message's content  *)
(* is the number of the call that added it (zero or less for messages a    *)
(* snapshot or an earlier run brought in).  Every `with self.lock:` block  *)
(* is two steps, taking the lock and running the block; what a method does *)
(* outside such a block is a step of its own.                              *)
(*                                                                         *)
(* Time: last_accessed is only ever compared with datetime.now(), so a     *)
(* session carries idle = now - last_accessed in minutes.  Writing now     *)
(* into last_accessed sets idle to 0, a minute passing adds 1 to it, and   *)
(* the count stops at ttl_minutes + 1, where the session is expired and    *)
(* stays so until it is accessed.  A snapshot file's last_accessed is      *)
(* overwritten by load_session and is left out of the file.                *)

MemThreads == {"t1", "t2"}

\* a session id that is not a key of self.conversations / a missing file
Absent ==
    [exists |-> FALSE, corrupt |-> FALSE, customer_id |-> "", idle |-> 0,
     messages |-> <<>>]

\* a file whose json.dump stopped half way
Corrupt == [Absent EXCEPT !.exists = TRUE, !.corrupt = TRUE]

\* messages a session or a snapshot holds from earlier on
RECURSIVE OldMessages(_)
OldMessages(k) ==
    IF k = 0 THEN <<>>
    ELSE Append(OldMessages(k - 1),
                Message(IF k % 2 = 1 THEN "user" ELSE "assistant", k - MaxHistory - 1, NoMeta))

\* mutant: the lock excludes nobody
CanAcquire_always(l, t) == TRUE

\* threading.Lock: acquire succeeds only while nobody holds the lock, the
\* calling thread included
CanAcquire(l, t) == l = ""

\* mutant: a session that is there already is kept
create_session_at_keeping(convs, sid, customer_id) ==
    IF convs[sid].exists THEN convs
    ELSE [convs EXCEPT ![sid] = [exists |-> TRUE, corrupt |-> FALSE,
                                 customer_id |-> customer_id, idle |-> 0,
                                 messages |-> <<>>]]

\* the body of create_session
create_session_at(convs, sid, customer_id) ==
    [convs EXCEPT ![sid] = [exists |-> TRUE, corrupt |-> FALSE,
                            customer_id |-> customer_id, idle |-> 0,
                            messages |-> <<>>]]

\* messages[-n:] for n > 0
LastMessages(msgs, n) ==
    IF Len(msgs) > n THEN SubSeq(msgs, Len(msgs) - n + 1, Len(msgs)) ELSE msgs

\* mutant: the list is cut from the wrong end
add_message_at_keeps_oldest(convs, sid, msg) ==
    [convs EXCEPT ![sid].messages = Take(Append(@, msg), MaxHistory),
                  ![sid].idle = 0]

\* the body of add_message for a session that exists: append, touch, trim
add_message_at(convs, sid, msg) ==
    [convs EXCEPT ![sid].messages = LastMessages(Append(@, msg), MaxHistory),
                  ![sid].idle = 0]

\* mutant: a read of an unknown session creates it
get_history_at_creating(convs, sid) ==
    IF convs[sid].exists THEN [convs EXCEPT ![sid].idle = 0]
    ELSE create_session_at(convs, sid, "")

\* the body of get_history: what it leaves in the store, what it returns
\* (`if last_n:` treats 0 like None)
get_history_at(convs, sid) ==
    IF convs[sid].exists THEN [convs EXCEPT ![sid].idle = 0] ELSE convs

get_history_result(convs, sid, last_n) ==
    IF ~convs[sid].exists THEN <<>>
    ELSE IF last_n # 0 THEN LastMessages(convs[sid].messages, last_n)
    ELSE convs[sid].messages

\* role.capitalize()
Capitalize(role) == IF role = "user" THEN "User" ELSE "Assistant"

\* get_context_string after get_history has returned: one "Role: content"
\* line per message
FormatContext(history) ==
    [i \in DOMAIN history |-> <<Capitalize(history[i].role), history[i].content>>]

\* mutant: clearing one session clears them all
clear_session_at_all(convs, sid) == [o \in DOMAIN convs |-> Absent]

\* the body of clear_session: what it leaves in the store, what it returns
clear_session_at(convs, sid) == [convs EXCEPT ![sid] = Absent]

\* mutant: clear_session reports success whatever it found
clear_session_result_true(convs, sid) == TRUE

clear_session_result(convs, sid) == convs[sid].exists

\* get_session_metadata: a read that writes nothing
get_session_metadata(convs, sid) ==
    IF convs[sid].exists
    THEN [customer_id |-> convs[sid].customer_id, idle |-> convs[sid].idle,
          message_count |-> Len(convs[sid].messages)]
    ELSE "None"

\* the body of update_customer_id
update_customer_id_at(convs, sid, customer_id) ==
    IF convs[sid].exists THEN [convs EXCEPT ![sid].customer_id = customer_id] ELSE convs

\* mutant: a session idle for exactly the TTL counts as expired
ExpiredSessions_at_ttl(convs) ==
    { sid \in DOMAIN convs : convs[sid].exists /\ convs[sid].idle >= ttl_minutes }

\* the sessions cleanup_expired_sessions finds expired
ExpiredSessions(convs) ==
    { sid \in DOMAIN convs : convs[sid].exists /\ convs[sid].idle > ttl_minutes }

\* what a write of the snapshot file may do
WriteOutcomes == {"ok", "unwritten", "corrupt"}

\* mutant: the snapshot holds the newest message only
_persist_session_newest_only(convs, dsk, sid, outcome) ==
    IF ~convs[sid].exists \/ outcome = "unwritten" THEN dsk
    ELSE IF outcome = "corrupt" THEN [dsk EXCEPT ![sid] = Corrupt]
    ELSE [dsk EXCEPT ![sid] = [convs[sid] EXCEPT !.idle = 0,
                                                 !.messages = LastMessages(@, 1)]]

\* _persist_session: best effort, every exception is swallowed
_persist_session(convs, dsk, sid, outcome) ==
    IF ~convs[sid].exists \/ outcome = "unwritten" THEN dsk
    ELSE IF outcome = "corrupt" THEN [dsk EXCEPT ![sid] = Corrupt]
    ELSE [dsk EXCEPT ![sid] = [convs[sid] EXCEPT !.idle = 0]]

\* mutant: expired sessions are deleted without a snapshot
cleanup_expired_sessions_disk_skips(convs, dsk, outcome) == dsk

\* the body of cleanup_expired_sessions: persist, then delete
cleanup_expired_sessions_disk(convs, dsk, outcome) ==
    [sid \in DOMAIN dsk |->
        IF sid \in ExpiredSessions(convs)
        THEN _persist_session(convs, dsk, sid, outcome)[sid]
        ELSE dsk[sid]]

cleanup_expired_sessions_at(convs) ==
    [sid \in DOMAIN convs |->
        IF sid \in ExpiredSessions(convs) THEN Absent ELSE convs[sid]]

\* the locked block of load_session: the snapshot replaces the session
load_session_at(convs, sid, snapshot) ==
    [convs EXCEPT ![sid] = [snapshot EXCEPT !.idle = 0]]

\* a minute passes
minute_passes(convs) ==
    [sid \in DOMAIN convs |->
        IF convs[sid].exists
        THEN [convs[sid] EXCEPT !.idle = Min(@ + 1, ttl_minutes + 1)]
        ELSE convs[sid]]

\* the store operations threads call
StoreOps == {"create_session", "add_message", "get_history", "get_context_string",
             "clear_session", "cleanup_expired_sessions", "_persist_session",
             "load_session"}

\* the operations of request traffic with a periodic cleanup beside it
TrafficOps == {"process_query", "cleanup_expired_sessions"}

\* last_n arguments: 0 stands for None and for 0
LastNs == {0, 1}

\* a thread outside every operation
IdleThread ==
    [pc |-> "idle", op |-> "", phase |-> "", sid |-> "", cust |-> "", n |-> 0,
     id |-> 0, local |-> <<>>]

\* the store as one caller uses it: two sessions side by side, every
\* method of the class, last_n up to a whole turn
SeqSessionIds == {"s1", "s2"}

SeqOps == StoreOps \cup {"get_session_metadata", "update_customer_id"}

SeqLastNs == {0, 1, 2}

\* no call made yet
NoCall ==
    [op |-> "", sid |-> "", cust |-> "", n |-> 0, outcome |-> "", before |-> Absent,
     ret |-> "None", blocked |-> FALSE]

----------------------------------------------------------------------------
(* RateLimiter (src/security.py).  An entry of self.requests[identifier] is *)
(* (ts, 1); only now - ts is ever used, so an entry is its age in half      *)
(* seconds, which stops growing at WINDOW, where `ts > minute_ago` fails.   *)

\* the threads of the web server (app.run(threaded=True))
RateThreads == {"w1", "w2"}

\* request.remote_addr or g.user_id
Identifiers == {"ip1", "ip2"}

\* the time that passes between two requests, in half seconds: a little
\* less than half a minute, or half a minute
Delays == {59, 60}

IdleWorker == [pc |-> "idle", id |-> "", current_count |-> 0]

NoVerdict == [id |-> "", allowed |-> TRUE, retry |-> "None"]

\* the limiter right after construction, nobody calling it
RateIdle ==
    /\ requests = [i \in Identifiers |-> <<>>]
    /\ workers = [w \in RateThreads |-> IdleWorker]
    /\ ncalls = 0
    /\ granted = [i \in Identifiers |-> <<>>]
    /\ verdict = NoVerdict

\* [... if ts > minute_ago]
Recent(entries) == SelectSeq(entries, LAMBDA age : age < WINDOW)

\* max(1, int((oldest_ts + timedelta(minutes=1) - now).total_seconds())):
\* the oldest entry is the first one, int() drops the half second
RetryAfter(entries) ==
    IF entries = <<>> THEN DEFAULT_RETRY
    ELSE LET seconds == (WINDOW - entries[1]) \div 2
         IN IF seconds > 1 THEN seconds ELSE 1

\* every entry is d half seconds older
Older(entries, d) == [k \in DOMAIN entries |-> Min(entries[k] + d, WINDOW)]

----------------------------------------------------------------------------
(* The state machine *)

Nodes == {"classifier", "query_planner", "kg_executor", "synthesizer",
          "rag_fallback", "hybrid", "escalation"}

TerminalNodes == {"synthesizer", "rag_fallback", "hybrid", "escalation"}

Init ==
    /\ connector \in {"none", "up"}
    /\ vector_store \in {"none", "up"}
    /\ memory \in {"none", "up"}
    /\ conversations \in IF memory = "none"
                         THEN {[sid \in SessionIds |-> NoSession]}
                         ELSE [SessionIds -> PriorSessions]
    /\ pc = "idle"
    /\ state = initial_state("", "")
    /\ session_id = ""
    /\ response = NoResponse
    /\ visited = <<>>
    /\ lock = ""
    /\ disk = [sid \in SessionIds |-> Absent]
    /\ threads = [t \in MemThreads |-> IdleThread]
    /\ nops = 0
    /\ acquired = [sid \in SessionIds |-> <<>>]
    /\ last = NoCall
    /\ RateIdle

\* process_query, lines 726-730: the context read from the session
conversation_context(convs, sid, mem) ==
    IF sid # "" /\ mem # "none" /\ convs[sid].exists
    THEN FormatContext(LastMessages(convs[sid].messages, CONTEXT_LAST_N))
    ELSE <<>>

\* what process_query hands to workflow.invoke: the initial state is built
\* from the query and the customer id; conversation_context is a local
\* that nothing reads after the print
workflow_input(q, c, convs, sid, mem) ==
    LET context == conversation_context(convs, sid, mem)
    IN initial_state(q, c)

\* the classifications the classifier may leave in a state it is given,
\* each with the route taken from it
Classifications(s) ==
    { [intent |-> classifier_node(s, out).intent,
       confidence |-> classifier_node(s, out).confidence,
       needs_hybrid |-> classifier_node(s, out).needs_hybrid,
       route |-> route_after_classification(classifier_node(s, out))] :
         out \in ClassifierOutcomes }

\* mutant: the user message is stored before the workflow runs
process_query_begin_stores_query ==
    /\ pc = "idle"
    /\ \E q \in Queries, c \in CustomerIds, sid \in {""} \cup SessionIds :
          /\ state' = initial_state(q, c)
          /\ session_id' = sid
          /\ conversations' = IF sid # "" /\ memory # "none"
                              THEN add_message(conversations, sid, "user", Text(q), NoMeta)
                              ELSE conversations
    /\ pc' = "classifier"
    /\ visited' = <<"classifier">>
    /\ UNCHANGED <<connector, vector_store, memory, response>>
    /\ UNCHANGED memvars
    /\ UNCHANGED ratevars

\* process_query up to workflow.invoke: the context read changes nothing
\* but the session's access time
process_query_begin ==
    /\ pc = "idle"
    /\ \E q \in Queries, c \in CustomerIds, sid \in {""} \cup SessionIds :
          /\ state' = workflow_input(q, c, conversations, sid, memory)
          /\ session_id' = sid
    /\ pc' = "classifier"
    /\ visited' = <<"classifier">>
    /\ UNCHANGED <<connector, vector_store, memory, conversations, response>>
    /\ UNCHANGED memvars
    /\ UNCHANGED ratevars

\* _build_workflow: the targets each node's edges may lead to
EdgeTargets(node) ==
    CASE node = "classifier" -> {"query_planner", "rag_fallback", "hybrid", "escalation"}
      [] node = "query_planner" -> {"kg_executor", "rag_fallback", "escalation"}
      [] node = "kg_executor" -> {"synthesizer", "query_planner", "rag_fallback", "escalation"}
      [] OTHER -> {"END"}

\* A node returned s2 and the edge out of it leads to next; an exception
\* that left the node, or a route the edge map does not hold, propagates
\* out of workflow.invoke and process_query
NodeStep(s2, next) ==
    /\ state' = s2
    /\ IF s2.exc \/ next \notin EdgeTargets(pc)
       THEN pc' = "raised" /\ visited' = visited
       ELSE pc' = next /\ visited' = Append(visited, next)
    /\ UNCHANGED <<connector, vector_store, memory, conversations, session_id, response>>
    /\ UNCHANGED memvars
    /\ UNCHANGED ratevars

Classify ==
    /\ pc = "classifier"
    /\ \E out \in ClassifierOutcomes :
          LET s2 == classifier_node(state, out)
          IN NodeStep(s2, route_after_classification(s2))

Plan ==
    /\ pc = "query_planner"
    /\ LET s2 == query_planner_node(state)
       IN NodeStep(s2, route_after_planning(s2))

Execute ==
    /\ pc = "kg_executor"
    /\ \E out \in ExecOutcomes :
          LET s2 == kg_executor_node(state, connector, out)
          IN NodeStep(s2, route_after_execution(s2))

Synthesize ==
    /\ pc = "synthesizer"
    /\ \E gen \in GenOutcomes :
          NodeStep(synthesizer_node(state, gen), "END")

RagFallback ==
    /\ pc = "rag_fallback"
    /\ \E search \in SearchOutcomes(RAG_N_RESULTS), gen1 \in GenOutcomes, gen2 \in GenOutcomes :
          NodeStep(rag_fallback_node(state, vector_store, search, gen1, gen2), "END")

Hybrid ==
    /\ pc = "hybrid"
    /\ \E kg \in ExecOutcomes, search \in SearchOutcomes(HYBRID_N_RESULTS), gen \in GenOutcomes :
          NodeStep(hybrid_node(state, connector, vector_store, kg, search, gen), "END")

Escalate ==
    /\ pc = "escalation"
    /\ NodeStep(escalation_node(state), "END")

\* mutant: the session is created anew on every call
SaveTurn_resets(convs, sid, s) ==
    LET c0 == create_session(convs, sid, s.customer_id)
        c1 == add_message(c0, sid, "user", Text(s.user_query),
                          [intent |-> s.intent, confidence |-> s.confidence])
    IN add_message(c1, sid, "assistant", s.final_response, NoMeta)

\* what process_query stores once the workflow has returned
SaveTurn(convs, sid, s) ==
    LET c0 == IF sid \notin get_active_sessions(convs)
              THEN create_session(convs, sid, s.customer_id)
              ELSE convs
        c1 == add_message(c0, sid, "user", Text(s.user_query),
                          [intent |-> s.intent, confidence |-> s.confidence])
    IN add_message(c1, sid, "assistant", s.final_response, NoMeta)

\* process_query after workflow.invoke
process_query_end ==
    /\ pc = "END"
    /\ response' = state.final_response
    /\ conversations' = IF session_id # "" /\ memory # "none"
                        THEN SaveTurn(conversations, session_id, state)
                        ELSE conversations
    /\ pc' = "returned"
    /\ UNCHANGED <<connector, vector_store, memory, state, session_id, visited>>
    /\ UNCHANGED memvars
    /\ UNCHANGED ratevars

Next ==
    \/ process_query_begin
    \/ Classify
    \/ Plan
    \/ Execute
    \/ Synthesize
    \/ RagFallback
    \/ Hybrid
    \/ Escalate
    \/ process_query_end

Spec == Init /\ [][Next]_vars

----------------------------------------------------------------------------
(* The shared store.  Under SpecMem threads call the operations of         *)
(* ConversationMemory; under SpecTraffic they call process_query, whose    *)
(* workflow is one step here (it does not touch the store), and            *)
(* cleanup_expired_sessions.  A minute may pass between any two steps.     *)

\* the message an add_message call appends: process_query adds the user
\* query and then the response
ThreadMessage_response_first(th) ==
    Message(IF th.phase = "assistant" THEN "user" ELSE "assistant", th.id, NoMeta)

ThreadMessage(th) ==
    Message(IF th.phase = "assistant" THEN "assistant" ELSE "user", th.id, NoMeta)

\* the thread at the first step of the operation it calls
Start(op, sid, cust, n, id) ==
    [pc |-> CASE op = "load_session" -> "read"
              [] op = "_persist_session" -> "persist"
              [] OTHER -> "lock",
     op |-> IF op = "process_query" THEN "get_context_string" ELSE op,
     phase |-> IF op = "process_query" THEN "context" ELSE "",
     sid |-> IF op = "cleanup_expired_sessions" THEN "" ELSE sid,
     cust |-> IF op \in {"create_session", "process_query", "update_customer_id"}
              THEN cust ELSE "",
     n |-> CASE op = "process_query" -> CONTEXT_LAST_N
             [] op \in {"get_history", "get_context_string"} -> n
             [] OTHER -> 0,
     id |-> id,
     local |-> <<>>]

\* the thread after its operation returned val: back in the caller, which
\* is process_query (lines 726-766) when phase says so
Finish(th, val) ==
    CASE th.phase = "context" ->
            [th EXCEPT !.pc = "workflow", !.phase = "workflow", !.local = <<>>]
      [] th.phase = "check" ->
            IF th.sid \in val
            THEN [th EXCEPT !.pc = "lock", !.op = "add_message", !.phase = "user"]
            ELSE [th EXCEPT !.pc = "lock", !.op = "create_session", !.phase = "create"]
      [] th.phase = "create" ->
            [th EXCEPT !.pc = "lock", !.op = "add_message", !.phase = "user"]
      [] th.phase = "user" ->
            [th EXCEPT !.pc = "lock", !.op = "add_message", !.phase = "assistant"]
      [] OTHER -> IdleThread

\* what the locked block of th's operation leaves in self.conversations
BodyStore(th, convs) ==
    CASE th.op = "create_session" -> create_session_at(convs, th.sid, th.cust)
      [] th.op = "add_message" ->
            IF convs[th.sid].exists
            THEN add_message_at(convs, th.sid, ThreadMessage(th))
            ELSE convs
      [] th.op \in {"get_history", "get_context_string"} ->
            get_history_at(convs, th.sid)
      [] th.op = "clear_session" -> clear_session_at(convs, th.sid)
      [] th.op = "cleanup_expired_sessions" -> cleanup_expired_sessions_at(convs)
      [] th.op = "load_session" -> load_session_at(convs, th.sid, th.local)
      [] th.op = "update_customer_id" -> update_customer_id_at(convs, th.sid, th.cust)
      [] OTHER -> convs

\* what the locked block returns
BodyResult(th, convs) ==
    CASE th.op = "create_session" -> create_session_at(convs, th.sid, th.cust)[th.sid]
      [] th.op \in {"get_history", "get_context_string"} ->
            get_history_result(convs, th.sid, th.n)
      [] th.op = "clear_session" -> clear_session_result(convs, th.sid)
      [] th.op = "get_session_metadata" -> get_session_metadata(convs, th.sid)
      [] th.op = "cleanup_expired_sessions" -> Cardinality(ExpiredSessions(convs))
      [] th.op = "load_session" -> TRUE
      [] th.op = "get_active_sessions" -> { sid \in DOMAIN convs : convs[sid].exists }
      [] OTHER -> "None"

\* the history of lock acquisitions starts anew where a session is
\* created, removed or replaced
BodyAcquired(th, convs) ==
    CASE th.op \in {"create_session", "clear_session"} ->
            [acquired EXCEPT ![th.sid] = <<>>]
      [] th.op = "cleanup_expired_sessions" ->
            [sid \in DOMAIN acquired |->
                IF sid \in ExpiredSessions(convs) THEN <<>> ELSE acquired[sid]]
      [] th.op = "load_session" -> [acquired EXCEPT ![th.sid] = th.local.messages]
      [] OTHER -> acquired

MemInit ==
    /\ connector = "none"
    /\ vector_store = "none"
    /\ memory = "up"
    /\ pc = "idle"
    /\ state = initial_state("", "")
    /\ session_id = ""
    /\ response = NoResponse
    /\ visited = <<>>
    /\ conversations \in [SessionIds -> {Absent, [Absent EXCEPT !.exists = TRUE,
                                                               !.customer_id = "CUST0001"]}]
    /\ disk \in [SessionIds -> {Absent} \cup
                    { [Absent EXCEPT !.exists = TRUE, !.customer_id = "CUST0001",
                                     !.messages = OldMessages(k)] :
                        k \in {1, MaxHistory + 1} }]
    /\ lock = ""
    /\ threads = [t \in MemThreads |-> IdleThread]
    /\ nops = 0
    /\ acquired = [sid \in SessionIds |-> <<>>]
    /\ last = NoCall
    /\ RateIdle

\* a thread calls one of the operations ops; idle threads are
\* interchangeable, so the caller is a fixed one of them
Call(t, ops) ==
    /\ threads[t].pc = "idle"
    /\ t = CHOOSE u \in MemThreads : threads[u].pc = "idle"
    /\ nops < MaxOps
    /\ nops' = nops + 1
    /\ \E op \in ops, sid \in DOMAIN conversations, cust \in CustomerIds, n \in LastNs :
          threads' = [threads EXCEPT ![t] = Start(op, sid, cust, n, nops + 1)]
    /\ UNCHANGED <<conversations, lock, disk, acquired>>
    /\ UNCHANGED agentvars
    /\ UNCHANGED ratevars
    /\ UNCHANGED last

\* `with self.lock:` is entered.  An add_message that found its session
\* missing waits here a second time, inside create_session, for the lock
\* it holds itself.
Acquire(t) ==
    LET th == threads[t] IN
    /\ th.pc \in {"lock", "nested"}
    /\ CanAcquire(lock, t)
    /\ lock' = t
    /\ threads' = [threads EXCEPT ![t].pc = "body"]
    /\ conversations' = IF th.pc = "nested"
                        THEN create_session_at(conversations, th.sid, "")
                        ELSE conversations
    /\ acquired' = IF th.op = "add_message"
                   THEN [acquired EXCEPT ![th.sid] =
                            IF th.pc = "nested" THEN <<ThreadMessage(th)>>
                            ELSE Append(@, ThreadMessage(th))]
                   ELSE acquired
    /\ UNCHANGED <<disk, nops>>
    /\ UNCHANGED agentvars
    /\ UNCHANGED ratevars
    /\ UNCHANGED last

\* the block under the lock runs and the lock is released; add_message on
\* a missing session goes into create_session with the lock still held
Body(t) ==
    LET th == threads[t] IN
    /\ th.pc = "body"
    /\ IF th.op = "add_message" /\ ~conversations[th.sid].exists
       THEN /\ threads' = [threads EXCEPT ![t].pc = "nested"]
            /\ UNCHANGED <<conversations, lock, disk, acquired>>
       ELSE /\ conversations' = BodyStore(th, conversations)
            /\ acquired' = BodyAcquired(th, conversations)
            /\ lock' = ""
            /\ threads' = [threads EXCEPT ![t] =
                  IF th.op = "get_context_string"
                  THEN [th EXCEPT !.pc = "format",
                                  !.local = BodyResult(th, conversations)]
                  ELSE Finish(th, BodyResult(th, conversations))]
            /\ \E outcome \in WriteOutcomes :
                  disk' = IF th.op = "cleanup_expired_sessions"
                          THEN cleanup_expired_sessions_disk(conversations, disk, outcome)
                          ELSE disk
    /\ UNCHANGED nops
    /\ UNCHANGED agentvars
    /\ UNCHANGED ratevars
    /\ UNCHANGED last

\* get_context_string builds its string after get_history has returned
Format(t) ==
    LET th == threads[t] IN
    /\ th.pc = "format"
    /\ threads' = [threads EXCEPT ![t] = Finish(th, FormatContext(th.local))]
    /\ UNCHANGED <<conversations, lock, disk, nops, acquired>>
    /\ UNCHANGED agentvars
    /\ UNCHANGED ratevars
    /\ UNCHANGED last

\* _persist_session called on its own takes no lock
Persist(t) ==
    LET th == threads[t] IN
    /\ th.pc = "persist"
    /\ \E outcome \in WriteOutcomes :
          disk' = _persist_session(conversations, disk, th.sid, outcome)
    /\ threads' = [threads EXCEPT ![t] = Finish(th, "None")]
    /\ UNCHANGED <<conversations, lock, nops, acquired>>
    /\ UNCHANGED agentvars
    /\ UNCHANGED ratevars
    /\ UNCHANGED last

\* load_session reads the snapshot file before it takes the lock
LoadRead(t) ==
    LET th == threads[t] IN
    /\ th.pc = "read"
    /\ threads' = [threads EXCEPT ![t] =
          IF ~disk[th.sid].exists \/ disk[th.sid].corrupt
          THEN Finish(th, FALSE)
          ELSE [th EXCEPT !.pc = "lock", !.local = disk[th.sid]]]
    /\ UNCHANGED <<conversations, lock, disk, nops, acquired>>
    /\ UNCHANGED agentvars
    /\ UNCHANGED ratevars
    /\ UNCHANGED last

\* workflow.invoke, then the store is asked for its active sessions
Workflow(t) ==
    LET th == threads[t] IN
    /\ th.pc = "workflow"
    /\ threads' = [threads EXCEPT ![t] =
          [th EXCEPT !.pc = "lock", !.op = "get_active_sessions", !.phase = "check"]]
    /\ UNCHANGED <<conversations, lock, disk, nops, acquired>>
    /\ UNCHANGED agentvars
    /\ UNCHANGED ratevars
    /\ UNCHANGED last

\* a minute passes between two steps
Tick ==
    /\ conversations' = minute_passes(conversations)
    /\ UNCHANGED <<lock, disk, threads, nops, acquired>>
    /\ UNCHANGED agentvars
    /\ UNCHANGED ratevars
    /\ UNCHANGED last

MemNext ==
    \/ \E t \in MemThreads : Call(t, StoreOps)
    \/ \E t \in MemThreads : Acquire(t)
    \/ \E t \in MemThreads : Body(t)
    \/ \E t \in MemThreads : Format(t)
    \/ \E t \in MemThreads : Persist(t)
    \/ \E t \in MemThreads : LoadRead(t)
    \/ Tick

SpecMem == MemInit /\ [][MemNext]_vars

\* request traffic with a cleanup thread beside it: the only operations
\* called are process_query and cleanup_expired_sessions
TrafficNext ==
    \/ \E t \in MemThreads : Call(t, TrafficOps)
    \/ \E t \in MemThreads : Acquire(t)
    \/ \E t \in MemThreads : Body(t)
    \/ \E t \in MemThreads : Format(t)
    \/ \E t \in MemThreads : Workflow(t)
    \/ Tick

SpecTraffic == MemInit /\ [][TrafficNext]_vars

----------------------------------------------------------------------------
(* The store under a single caller.  With nobody to interleave with, a     *)
(* call is one step: the method's file access, its locked block and what   *)
(* it does after the lock.  last records the call and the value returned;  *)
(* an add_message that found its session missing never returns (blocked).  *)

\* what the call th makes of the store and the directory, and its result
Invoked(th, convs, dsk, outcome) ==
    LET same == [convs |-> convs, disk |-> dsk, ret |-> "None", blocked |-> FALSE] IN
    CASE th.op = "_persist_session" ->
            [same EXCEPT !.disk = _persist_session(convs, dsk, th.sid, outcome)]
      [] th.op = "load_session" ->
            IF ~dsk[th.sid].exists \/ dsk[th.sid].corrupt
            THEN [same EXCEPT !.ret = FALSE]
            ELSE [same EXCEPT !.convs = BodyStore([th EXCEPT !.local = dsk[th.sid]], convs),
                              !.ret = TRUE]
      [] th.op = "add_message" /\ ~convs[th.sid].exists ->
            [same EXCEPT !.blocked = TRUE]
      [] th.op = "get_context_string" ->
            [same EXCEPT !.convs = BodyStore(th, convs),
                         !.ret = FormatContext(BodyResult(th, convs))]
      [] th.op = "cleanup_expired_sessions" ->
            [same EXCEPT !.convs = BodyStore(th, convs),
                         !.disk = cleanup_expired_sessions_disk(convs, dsk, outcome),
                         !.ret = BodyResult(th, convs)]
      [] OTHER ->
            [same EXCEPT !.convs = BodyStore(th, convs),
                         !.ret = BodyResult(th, convs)]

SeqInit ==
    /\ connector = "none"
    /\ vector_store = "none"
    /\ memory = "up"
    /\ pc = "idle"
    /\ state = initial_state("", "")
    /\ session_id = ""
    /\ response = NoResponse
    /\ visited = <<>>
    /\ conversations \in [SeqSessionIds -> {Absent, [Absent EXCEPT !.exists = TRUE,
                                                                  !.customer_id = "CUST0001"]}]
    /\ disk \in { [sid \in SeqSessionIds |-> IF sid = "s1" THEN f ELSE Absent] :
                    f \in {Absent, [Absent EXCEPT !.exists = TRUE,
                                                  !.customer_id = "CUST0001",
                                                  !.messages = OldMessages(MaxHistory + 1)]} }
    /\ lock = ""
    /\ threads = [t \in MemThreads |-> IdleThread]
    /\ nops = 0
    /\ acquired = [sid \in SeqSessionIds |-> <<>>]
    /\ last = NoCall
    /\ RateIdle

\* the caller calls a method and, unless the method blocks, gets its result
Invoke ==
    /\ lock = ""
    /\ nops < MaxOps
    /\ nops' = nops + 1
    /\ \E op \in SeqOps, sid \in DOMAIN conversations, cust \in CustomerIds,
          n \in SeqLastNs, outcome \in WriteOutcomes :
          \* an argument the method does not take has one value
          /\ op = "cleanup_expired_sessions" => sid = CHOOSE x \in DOMAIN conversations : TRUE
          /\ op \in {"create_session", "update_customer_id"} \/ cust = ""
          /\ op \in {"get_history", "get_context_string"} \/ n = 0
          /\ op \in {"_persist_session", "cleanup_expired_sessions"} \/ outcome = "ok"
          /\ LET th == Start(op, sid, cust, n, nops + 1)
                 r == Invoked(th, conversations, disk, outcome)
             IN
             /\ conversations' = r.convs
             /\ disk' = r.disk
             /\ lock' = IF r.blocked THEN "t1" ELSE ""
             /\ last' = [op |-> op, sid |-> th.sid, cust |-> th.cust, n |-> th.n,
                         outcome |-> IF op \in {"_persist_session", "cleanup_expired_sessions"}
                                     THEN outcome ELSE "",
                         before |-> IF th.sid = "" THEN Absent ELSE conversations[th.sid],
                         ret |-> r.ret, blocked |-> r.blocked]
    /\ UNCHANGED <<threads, acquired>>
    /\ UNCHANGED agentvars
    /\ UNCHANGED ratevars

\* a minute passes between two calls
SeqTick ==
    /\ conversations' = minute_passes(conversations)
    /\ last' = [NoCall EXCEPT !.op = "minute"]
    /\ UNCHANGED <<lock, disk, threads, nops, acquired>>
    /\ UNCHANGED agentvars
    /\ UNCHANGED ratevars

SeqNext ==
    \/ Invoke
    \/ SeqTick

SpecSeq == SeqInit /\ [][SeqNext]_vars

----------------------------------------------------------------------------
(* The rate limiter under the threads of the web server.  is_allowed takes *)
(* no lock, so its statements interleave; time passes between requests.    *)

RateInit ==
    /\ connector = "none"
    /\ vector_store = "none"
    /\ memory = "none"
    /\ pc = "idle"
    /\ state = initial_state("", "")
    /\ session_id = ""
    /\ response = NoResponse
    /\ visited = <<>>
    /\ conversations = [sid \in SessionIds |-> Absent]
    /\ disk = [sid \in SessionIds |-> Absent]
    /\ lock = ""
    /\ threads = [t \in MemThreads |-> IdleThread]
    /\ nops = 0
    /\ acquired = [sid \in SessionIds |-> <<>>]
    /\ last = NoCall
    /\ RateIdle

\* a request arrives on thread w: is_allowed(identifier) is called
is_allowed_begin(w) ==
    /\ workers[w].pc = "idle"
    /\ ncalls < MaxCalls
    /\ ncalls' = ncalls + 1
    /\ \E i \in Identifiers :
          workers' = [workers EXCEPT ![w] = [pc |-> "clean", id |-> i, current_count |-> 0]]
    /\ UNCHANGED <<requests, granted, verdict>>
    /\ UNCHANGED <<agentvars, conversations, memvars>>

\* lines 358-362: entries a minute old or older are dropped
is_allowed_clean(w) ==
    /\ workers[w].pc = "clean"
    /\ requests' = [requests EXCEPT ![workers[w].id] = Recent(@)]
    /\ workers' = [workers EXCEPT ![w].pc = "count"]
    /\ UNCHANGED <<ncalls, granted, verdict>>
    /\ UNCHANGED <<agentvars, conversations, memvars>>

\* lines 365-367: the entries are counted
is_allowed_count(w) ==
    /\ workers[w].pc = "count"
    /\ workers' = [workers EXCEPT ![w].pc = "decide",
                                  ![w].current_count = Len(requests[workers[w].id])]
    /\ UNCHANGED <<requests, ncalls, granted, verdict>>
    /\ UNCHANGED <<agentvars, conversations, memvars>>

\* lines 369-382: the request is denied with a retry time, or recorded and
\* allowed
is_allowed_decide(w) ==
    LET i == workers[w].id IN
    /\ workers[w].pc = "decide"
    /\ IF workers[w].current_count >= requests_per_minute
       THEN /\ verdict' = [id |-> i, allowed |-> FALSE, retry |-> RetryAfter(requests[i])]
            /\ UNCHANGED <<requests, granted>>
       ELSE /\ requests' = [requests EXCEPT ![i] = Append(@, 0)]
            /\ granted' = [granted EXCEPT ![i] = Append(@, 0)]
            /\ verdict' = [id |-> i, allowed |-> TRUE, retry |-> "None"]
    /\ workers' = [workers EXCEPT ![w] = IdleWorker]
    /\ UNCHANGED ncalls
    /\ UNCHANGED <<agentvars, conversations, memvars>>

\* time passes between two requests
RateTick ==
    /\ \A w \in RateThreads : workers[w].pc = "idle"
    /\ \E i \in Identifiers : requests[i] # <<>> /\ requests[i][1] < WINDOW
    /\ \E d \in Delays :
          /\ requests' = [i \in Identifiers |-> Older(requests[i], d)]
          /\ granted' = [i \in Identifiers |-> Recent(Older(granted[i], d))]
    /\ verdict' = NoVerdict
    /\ UNCHANGED <<workers, ncalls>>
    /\ UNCHANGED <<agentvars, conversations, memvars>>

RateNext ==
    \/ \E w \in RateThreads : is_allowed_begin(w)
    \/ \E w \in RateThreads : is_allowed_clean(w)
    \/ \E w \in RateThreads : is_allowed_count(w)
    \/ \E w \in RateThreads : is_allowed_decide(w)
    \/ RateTick

SpecRate == RateInit /\ [][RateNext]_vars

----------------------------------------------------------------------------
(* Properties *)

Count(seq, x) == Cardinality({ i \in DOMAIN seq : seq[i] = x })

PlanEntries == Count(visited, "query_planner")

Entered(node) == \E i \in DOMAIN visited : visited[i] = node

\* the classifier has run and the edge out of it has been taken
Classified == Len(visited) >= 2

Finished == pc \in {"END", "returned"}

\* C1: within one request Plan is entered at most maxRetries (2) times,
\* attempt_count never decreases and never exceeds maxRetries, and once
\* attempt_count has reached maxRetries the edge out of Execute leads to
\* RagFallback and Plan is not entered again.
C1_RetryBounded ==
    [][ /\ PlanEntries' <= maxRetries
        /\ state'.attempt_count <= maxRetries
        /\ (pc \in Nodes => state'.attempt_count >= state.attempt_count)
        /\ (pc = "kg_executor" /\ state'.attempt_count >= maxRetries /\ pc' # "raised"
              => pc' = "rag_fallback")
        /\ (state.attempt_count >= maxRetries => pc' # "query_planner") ]_vars

\* an execution failed, Plan was entered a second time and the request
\* ended through RagFallback
C1_Witness ==
    /\ pc = "returned"
    /\ PlanEntries = maxRetries
    /\ state.attempt_count = 1
    /\ visited[Len(visited) - 1] = "rag_fallback"

\* C2: every call terminates: the workflow never enters more than
\* 2 * maxRetries + 2 states, some step is possible until process_query has
\* returned, and Done is entered from exactly one of Synthesize,
\* RagFallback, Hybrid, Escalate, the only terminal state the call entered.
C2_Terminates ==
    /\ Len(visited) <= 2 * maxRetries + 2
    /\ (pc = "returned" \/ ENABLED Next)
    /\ (Finished =>
          /\ visited[1] = "classifier"
          /\ visited[Len(visited)] = "END"
          /\ visited[Len(visited) - 1] \in TerminalNodes
          /\ Cardinality({ i \in DOMAIN visited : visited[i] \in TerminalNodes }) = 1)

\* the longest path: Classify, Plan, Execute, Plan, RagFallback, Done
C2_Witness ==
    /\ pc = "returned"
    /\ Len(visited) = 2 * maxRetries + 2

C4_LowConfidenceToRag ==
    ( /\ Classified
      /\ state.confidence < CONFIDENCE_THRESHOLD
      /\ state.intent # "escalation"
      /\ ~state.needs_hybrid )
    => /\ visited[2] = "rag_fallback"
       /\ ~Entered("query_planner")
       /\ ~Entered("kg_executor")

\* a customer-specific intent just below the threshold, customer id given
C4_Witness ==
    /\ pc = "returned"
    /\ state.intent = "claim_history"
    /\ state.confidence = 69
    /\ ~state.needs_hybrid
    /\ state.customer_id # ""
    /\ visited = <<"classifier", "rag_fallback", "END">>

\* C5: the decision after Classify has a strict priority: the escalation
\* intent leads to Escalate whatever needs_hybrid and the confidence are;
\* otherwise needs_hybrid leads to Hybrid whatever the confidence and the
\* customer id are; Hybrid is entered in no other case.
C5_RoutingPriority ==
    Classified =>
        /\ (state.intent = "escalation" => visited[2] = "escalation")
        /\ (state.intent # "escalation" /\ state.needs_hybrid => visited[2] = "hybrid")
        /\ (state.intent # "escalation" /\ ~state.needs_hybrid => visited[2] # "hybrid")

\* an escalation request that is also flagged hybrid, at low confidence
C5_Witness ==
    /\ pc = "returned"
    /\ state.intent = "escalation"
    /\ state.needs_hybrid
    /\ state.confidence < CONFIDENCE_THRESHOLD
    /\ visited[2] = "escalation"

\* the intents route_after_classification sends to Plan when a customer id
\* is present
CustomerIntents == Intents \ (GeneralIntents \cup {"escalation"})

\* C6: with confidence at or above the threshold, needs_hybrid false, an
\* intent that requires a customer and no customer id, the request goes to
\* Escalate without entering Plan and ends with requires_escalation true.
C6_MissingCustomerEscalates ==
    ( /\ Classified
      /\ state.confidence >= CONFIDENCE_THRESHOLD
      /\ ~state.needs_hybrid
      /\ state.intent \in CustomerIntents
      /\ state.customer_id = "" )
    => /\ visited[2] = "escalation"
       /\ ~Entered("query_planner")
       /\ (Finished => state.requires_escalation)

\* scenario C: claim_history at 0.9 without a customer id
C6_Witness ==
    /\ pc = "returned"
    /\ state.intent = "claim_history"
    /\ state.confidence = 90
    /\ ~state.needs_hybrid
    /\ state.customer_id = ""
    /\ state.requires_escalation
    /\ response.kind = "escalation"

C8_ScenarioB_Claimed ==
    ( /\ pc = "returned"
      /\ state.intent = "coverage_check"
      /\ state.confidence = 90
      /\ ~state.needs_hybrid
      /\ state.customer_id # ""
      /\ ~PlannerRaises(state)
      /\ PlannedQuery(state) # "" )
    => /\ Len(visited) >= 4
       /\ visited[2] = "query_planner"
       /\ visited[3] = "kg_executor"
       /\ (state.error = "" /\ Len(state.query_results) = 1
             => /\ visited[4] = "synthesizer"
                /\ response.rows = state.query_results)

\* C9 (as claimed): when the first Execute raised and the router went back
\* to Plan, and that Plan again produced a query, the router enters Execute
\* a second time.
C9_RetryReexecutes_Claimed ==
    ( /\ Len(visited) >= 5
      /\ visited[3] = "kg_executor"
      /\ visited[4] = "query_planner"
      /\ ~PlannerRaises(state)
      /\ PlannedQuery(state) # "" )
    => visited[5] = "kg_executor"

\* C10 (as claimed): after every Plan, a planning failure or an absent query
\* leads to RagFallback and anything else to Execute; after an Execute that
\* raised nothing, zero rows lead to RagFallback and one or more rows to
\* Synthesize.  (The planner's outcome depends only on the intent, the
\* parameters and the customer id, which no node changes after Classify;
\* attempt_count counts the executions that raised.)
C10_PlanAndExecuteEdges_Claimed ==
    \A i \in DOMAIN visited :
        i < Len(visited) =>
            /\ (visited[i] = "query_planner" =>
                   visited[i + 1] = IF PlannerRaises(state) \/ PlannedQuery(state) = ""
                                    THEN "rag_fallback" ELSE "kg_executor")
            /\ (visited[i] = "kg_executor" /\ state.attempt_count = 0 =>
                   visited[i + 1] = IF state.query_results = <<>>
                                    THEN "rag_fallback" ELSE "synthesizer")

\* C11 (as claimed): when the classifier call failed (the state right after
\* Classify carries the classifier's error), the request continues with
\* intent general_question and confidence 0.3 and the state after Classify
\* is RagFallback, not Plan, Hybrid or Escalate.
C11_ClassifierFailureToRag_Claimed ==
    (Len(visited) = 2 /\ state.error # "")
    => /\ state.intent = "general_question"
       /\ state.confidence = DEFAULT_CONFIDENCE
       /\ pc = "rag_fallback"

\* the (role, content) pairs of a message list
RoleContent(msgs) == [i \in DOMAIN msgs |-> <<msgs[i].role, msgs[i].content>>]

\* the last n entries of a sequence
LastN(seq, n) == IF Len(seq) > n THEN SubSeq(seq, Len(seq) - n + 1, Len(seq)) ELSE seq

\* C12: the step that completes a process call with a session id leaves the
\* session existing, with the (role, content) list it had before the call
\* (empty if the session was new) followed by (user, query) and (assistant,
\* final response), cut to the last max_history entries; a session that
\* existed keeps its customer id, a new one gets the call's.
C12_TurnStored ==
    [][ (pc = "END" /\ session_id # "" /\ memory # "none") =>
          LET old == conversations[session_id]
              new == conversations'[session_id]
              before == IF old.exists THEN RoleContent(old.messages) ELSE <<>>
          IN /\ new.exists
             /\ RoleContent(new.messages) =
                   LastN(before \o << <<"user", Text(state.user_query)>>,
                                      <<"assistant", state.final_response>> >>,
                         max_history)
             /\ new.customer_id = IF old.exists THEN old.customer_id
                                  ELSE state.customer_id ]_vars

\* a call on a session with a full history has returned: the oldest turn
\* was dropped, the earlier turns are still there, the new turn is last
C12_Witness ==
    /\ pc = "returned"
    /\ session_id # ""
    /\ state.customer_id = ""
    /\ conversations[session_id].customer_id = "CUST0001"
    /\ Len(conversations[session_id].messages) = max_history
    /\ conversations[session_id].messages[1] = PriorTurn(2)[1]
    /\ conversations[session_id].messages[max_history].role = "assistant"
    /\ conversations[session_id].messages[max_history].content = response

\* C13: no step from the start of a process call up to and including the
\* terminal node changes the store: the session's messages are written
\* only by the step that follows Done.
C13_NoWriteBeforeDone ==
    [][ (pc \in {"idle"} \cup Nodes) => (conversations' = conversations) ]_vars

\* the workflow has reached Done after a retry and the session still holds
\* exactly the one turn it held before the call
C13_Witness ==
    /\ pc = "END"
    /\ session_id # ""
    /\ memory = "up"
    /\ PlanEntries = maxRetries
    /\ conversations[session_id].messages = History(1)

\* the messages of add_message calls on sid that hold the lock and have
\* not appended yet
InFlight(sid) ==
    { ThreadMessage(threads[t]) :
        t \in { u \in MemThreads : /\ threads[u].op = "add_message"
                                   /\ threads[u].sid = sid
                                   /\ threads[u].pc \in {"body", "nested"} } }

\* the messages whose add_message took the lock and ran its block, in the
\* order in which the lock was taken
AcquiredDone(sid) == SelectSeq(acquired[sid], LAMBDA m : m \notin InFlight(sid))

\* those among them that add_message calls of this run added
Added(sid) == SelectSeq(AcquiredDone(sid), LAMBDA m : m.content > 0)

IsSuffix(a, b) == Len(a) <= Len(b) /\ a = SubSeq(b, Len(b) - Len(a) + 1, Len(b))

\* C14 (as claimed): in every reachable state of the store, whatever
\* operations were called, a load of a snapshot that another store with a
\* larger max_history wrote included, every session holds at most
\* max_history messages.
C14_HistoryBounded_Claimed ==
    \A sid \in SessionIds : Len(conversations[sid].messages) <= MaxHistory

\* C15: once add_message has run max_history + k times (k >= 1) on a
\* session since it was created or loaded, the session holds exactly
\* max_history messages: the most recently added ones, in the order added.
C15_TrimKeepsNewest ==
    \A sid \in SessionIds :
        (conversations[sid].exists /\ Len(Added(sid)) >= MaxHistory + 1)
        => /\ Len(conversations[sid].messages) = MaxHistory
           /\ conversations[sid].messages = LastN(Added(sid), MaxHistory)

\* max_history + 1 messages were added to one session and all calls returned
C15_Witness ==
    \E sid \in SessionIds :
        /\ conversations[sid].exists
        /\ Len(Added(sid)) = MaxHistory + 1
        /\ \A t \in MemThreads : threads[t].pc = "idle"
        /\ conversations[sid].messages[MaxHistory] = Added(sid)[MaxHistory + 1]

\* C16 (as claimed): an add_message that found its session missing goes on:
\* the create_session it calls gets the lock, so the call creates the
\* session, appends and returns.
C16_AutoCreate_Claimed ==
    \A t \in MemThreads : threads[t].pc = "nested" => CanAcquire(lock, t)

\* a thread can take its next step
CanStep(t) ==
    \/ threads[t].pc \in {"body", "format", "persist", "read", "workflow"}
    \/ threads[t].pc \in {"lock", "nested"} /\ CanAcquire(lock, t)

\* C17 (as claimed): while all threads are inside add_message, one of them
\* can take a step, so no thread waits for the lock forever and every call
\* returns.
C17_ConcurrentAdds_Claimed ==
    (\A t \in MemThreads : threads[t].op = "add_message")
    => \E t \in MemThreads : CanStep(t)

\* C18 (as claimed): a thread that is inside a store operation and is not
\* waiting for the lock holds the lock: no step of an operation runs
\* outside it.
C18_WholeBodyLocked_Claimed ==
    \A t \in MemThreads :
        threads[t].pc \in {"body", "read", "persist", "format"} => lock = t

\* C19: the messages of an existing session are the newest ones, in the
\* order in which their add_message calls took the lock; none is missing,
\* doubled or out of place, and only trimming removes the oldest.
C19_AppendOrderIsLockOrder ==
    \A sid \in SessionIds :
        conversations[sid].exists
        => /\ IsSuffix(conversations[sid].messages, AcquiredDone(sid))
           /\ Len(conversations[sid].messages) >=
                 Min(Len(AcquiredDone(sid)), MaxHistory)

\* two concurrent calls: the one called second took the lock first and its
\* message comes first
C19_Witness ==
    \E sid \in SessionIds :
        /\ conversations[sid].exists
        /\ Len(conversations[sid].messages) = 2
        /\ conversations[sid].messages[2].content > 0
        /\ conversations[sid].messages[1].content > conversations[sid].messages[2].content
        /\ \A t \in MemThreads : threads[t].pc = "idle"

\* C20 (as claimed): with cleanup_expired_sessions running beside process
\* calls, no process call waits for a lock whose holder waits for it
\* itself, so every call completes.
C20_CleanupBesideTraffic_Claimed ==
    \A t \in MemThreads :
        threads[t].phase # ""
        => ~( /\ threads[t].pc \in {"lock", "nested"}
              /\ lock # ""
              /\ threads[lock].pc = "nested" )

----------------------------------------------------------------------------
(* The store under a single caller (SpecSeq) *)

\* this step is a call of op
Called(op) == nops' = nops + 1 /\ last'.op = op

\* the call recorded in last returned
Returned(op) == last.op = op /\ ~last.blocked

\* a store that has just been constructed
FreshStore == [sid \in DOMAIN conversations |-> Absent]

\* what load_session(sid) makes of a store convs over the directory dsk
Loaded(convs, dsk, sid) ==
    Invoked(Start("load_session", sid, "", 0, 0), convs, dsk, "ok")

C22_AccessTouches_Claimed ==
    ( /\ last.op \in {"get_history", "get_context_string", "add_message",
                       "get_session_metadata", "update_customer_id", "load_session"}
      /\ ~last.blocked
      /\ conversations[last.sid].exists )
    => conversations[last.sid].idle = 0

C24_EvictionSnapshots ==
    [][ Called("cleanup_expired_sessions") =>
          /\ ~last'.blocked
          /\ last'.ret \in 0..Cardinality(DOMAIN conversations)
          /\ \A sid \in DOMAIN conversations :
                ( conversations[sid].exists /\ conversations[sid].idle > ttl_minutes )
                => /\ ~conversations'[sid].exists
                   /\ last'.outcome = "ok"
                      => LET l == Loaded(conversations', disk', sid)
                         IN /\ l.ret = TRUE
                            /\ l.convs[sid].exists
                            /\ l.convs[sid].messages = conversations[sid].messages ]_vars

\* a cleanup evicted a session that held a message added in this run, and
\* the snapshot it wrote holds that message
C24_Witness ==
    /\ Returned("cleanup_expired_sessions")
    /\ last.outcome = "ok"
    /\ \E sid \in DOMAIN conversations :
          /\ ~conversations[sid].exists
          /\ disk[sid].exists
          /\ Len(disk[sid].messages) >= 1
          /\ disk[sid].messages[1].content > 0
          /\ Loaded(conversations, disk, sid).ret = TRUE

\* C25: get_history and get_context_string on an unknown session id return
\* an empty list and an empty string (no lines), raise nothing, and leave
\* the store as it was: the read creates no session.
C25_UnknownSessionReads ==
    [][ ( /\ Called("get_history") \/ Called("get_context_string")
          /\ ~conversations[last'.sid].exists )
        => /\ ~last'.blocked
           /\ last'.ret = <<>>
           /\ conversations' = conversations
           /\ disk' = disk ]_vars

\* get_context_string returned nothing for a session that is not there,
\* beside a session that is
C25_Witness ==
    /\ Returned("get_context_string")
    /\ last.ret = <<>>
    /\ ~conversations[last.sid].exists
    /\ \E o \in DOMAIN conversations : conversations[o].exists

\* C26 (as claimed): whatever calls came before, get_context_string(sid,
\* last_n) on a session is built from exactly the last_n most recent
\* messages the session holds at the time of the call, in order, one
\* "Role: content" line each.
C26_ContextIsCurrent_Claimed ==
    [][ ( Called("get_context_string") /\ conversations[last'.sid].exists )
        => last'.ret = [i \in DOMAIN LastN(conversations[last'.sid].messages, last'.n) |->
                           LET m == LastN(conversations[last'.sid].messages, last'.n)[i]
                           IN <<Capitalize(m.role), m.content>>] ]_vars

\* C27: create_session on an id that already exists replaces the session:
\* afterwards its history is empty and its customer id is the one just
\* given.  A second create_session with the same arguments right after
\* leaves the session as the first one left it (timestamps apart).
C27_CreateReplaces ==
    [][ Called("create_session") =>
          /\ ~last'.blocked
          /\ conversations'[last'.sid].exists
          /\ conversations'[last'.sid].messages = <<>>
          /\ conversations'[last'.sid].customer_id = last'.cust
          /\ last'.ret = conversations'[last'.sid]
          /\ Invoked(Start("create_session", last'.sid, last'.cust, 0, 0),
                     conversations', disk', "ok").convs = conversations' ]_vars

\* create_session was called on a session that held messages and another
\* customer id
C27_Witness ==
    /\ Returned("create_session")
    /\ last.before.exists
    /\ Len(last.before.messages) >= 1
    /\ last.before.customer_id # last.cust
    /\ conversations[last.sid].messages = <<>>

\* C28: clear_session returns True exactly when the session existed at the
\* time of the call; the session is then removed and a get_history on it
\* right after is empty.  It returns False and changes nothing when the
\* session is unknown, so a second clear_session in a row returns False.
C28_ClearReports ==
    [][ Called("clear_session") =>
          /\ ~last'.blocked
          /\ last'.ret = conversations[last'.sid].exists
          /\ ~conversations'[last'.sid].exists
          /\ Invoked(Start("get_history", last'.sid, "", 0, 0),
                     conversations', disk', "ok").ret = <<>>
          /\ ~conversations[last'.sid].exists
             => conversations' = conversations /\ disk' = disk
          /\ Invoked(Start("clear_session", last'.sid, "", 0, 0),
                     conversations', disk', "ok").ret = FALSE ]_vars

\* clear_session returned True for a session that held a message
C28_Witness ==
    /\ Returned("clear_session")
    /\ last.ret = TRUE
    /\ last.before.exists
    /\ Len(last.before.messages) >= 1
    /\ ~conversations[last.sid].exists

\* C29: sessions are independent: create_session, add_message, get_history
\* and clear_session on one session id leave the message list, the customer
\* id and the last access of every other session as they were.
C29_SessionsIndependent ==
    [][ ( \/ Called("create_session")
          \/ Called("add_message")
          \/ Called("get_history")
          \/ Called("clear_session") )
        => \A o \in DOMAIN conversations \ {last'.sid} :
              conversations'[o] = conversations[o] ]_vars

\* add_message returned on one session while another session, which holds
\* a message, had been idle for a minute and still has
C29_Witness ==
    /\ Returned("add_message")
    /\ last.before.exists
    /\ Len(conversations[last.sid].messages) >= 1
    /\ conversations[last.sid].idle = 0
    /\ \E o \in DOMAIN conversations \ {last.sid} :
          /\ conversations[o].exists
          /\ Len(conversations[o].messages) >= 1
          /\ conversations[o].idle = 1

----------------------------------------------------------------------------
(* The workflow (Spec), continued *)

\* C30: Escalate calls no collaborator: whatever the connector and the
\* vector store are, its step cannot fail, writes the fixed escalation
\* response and requires_escalation = TRUE, and leaves every field a
\* planner, executor, retriever or generator fills as it was.  On every
\* path that ends in Synthesize, RagFallback or Hybrid, requires_escalation
\* is false at Done.
C30_EscalateIsFixed ==
    [][ /\ ( pc = "escalation" /\ pc' # pc )
            => /\ pc' = "END"
               /\ state'.final_response = Resp("escalation", <<>>, 0)
               /\ state'.requires_escalation
               /\ \A f \in DOMAIN state \ {"final_response", "requires_escalation"} :
                     state'[f] = state[f]
               /\ connector' = connector
               /\ vector_store' = vector_store
        /\ ( pc \in {"synthesizer", "rag_fallback", "hybrid"} /\ pc' = "END" )
            => ~state'.requires_escalation
        /\ ( pc = "END" /\ pc' = "returned" /\ ~Entered("escalation") )
            => /\ ~state'.requires_escalation
               /\ response'.kind # "escalation" ]_vars

\* a low-confidence request was escalated with no connector and no vector
\* store at hand, and the call returned the escalation response
C30_Witness ==
    /\ pc = "returned"
    /\ visited = <<"classifier", "escalation", "END">>
    /\ state.confidence < CONFIDENCE_THRESHOLD
    /\ connector = "none"
    /\ vector_store = "none"
    /\ state.requires_escalation
    /\ response = Resp("escalation", <<>>, 0)

\* C31: when the generator fails in Synthesize the request does not fail:
\* the step ends at END with final_response either the generated text or,
\* the generator having failed, the template built from the rows (the first
\* row for coverage_check, the first TEMPLATE_TOP rows for hospital_finder,
\* the row count otherwise), and the call returns that response.
C31_SynthesizeFallsBack ==
    [][ /\ ( pc = "synthesizer" /\ pc' # pc )
            => LET rows == state.query_results
                   template ==
                       CASE state.intent = "coverage_check" ->
                               Resp("template_coverage", <<rows[1]>>, 0)
                         [] state.intent = "hospital_finder" ->
                               Resp("template_hospitals", Take(rows, TEMPLATE_TOP), 0)
                         [] OTHER -> Resp("template_count", rows, 0)
               IN /\ rows # <<>>
                  /\ pc' = "END"
                  /\ ~state'.exc
                  /\ state'.final_response \in {Resp("synth_generated", rows, 0), template}
                  /\ state' = [state EXCEPT !.final_response = state'.final_response]
        /\ ( pc = "END" /\ pc' = "returned" /\ Entered("synthesizer") )
            => response' = state.final_response ]_vars

\* the generator failed on the rows of a hospital_finder query and the call
\* returned the template built from the first TEMPLATE_TOP of them
C31_Witness ==
    /\ pc = "returned"
    /\ Entered("synthesizer")
    /\ state.intent = "hospital_finder"
    /\ Len(state.query_results) = MaxRows
    /\ response = Resp("template_hospitals", Take(state.query_results, TEMPLATE_TOP), 0)

\* C32 (as claimed): in Hybrid the structured and the semantic path are
\* attempted independently.  Whatever the structured path does (rows, no
\* rows, an error), the semantic search is made when there is a vector
\* store and the snippets it returns are used for the answer; whatever the
\* semantic path does, the structured rows are kept; and in every case the
\* node returns a response.
C32_HybridIndependent_Claimed ==
    pc = "hybrid" =>
        \A kg \in ExecOutcomes, search \in SearchOutcomes(HYBRID_N_RESULTS),
           gen \in GenOutcomes :
            LET s2 == hybrid_node(state, connector, vector_store, kg, search, gen)
            IN /\ ~s2.exc
               /\ s2.final_response.kind # ""
               /\ ( vector_store # "none" /\ search.kind = "docs" )
                  => s2.final_response.docs = search.n
               /\ \A other \in SearchOutcomes(HYBRID_N_RESULTS) :
                     hybrid_node(state, connector, vector_store, kg, other, gen)
                         .final_response.rows = s2.final_response.rows

\* C33: when the generator fails in Hybrid, final_response is the raw
\* combination of the semantic snippets and the rendering of the first
\* HYBRID_TOP structured rows whenever one of the two sources is non-empty,
\* and the fixed "couldn't find complete information" statement when both
\* are empty; rows appear only if the structured query returned them and
\* snippets only if the search returned them.
C33_HybridRawFallback ==
    pc = "hybrid" =>
        \A kg \in ExecOutcomes, search \in SearchOutcomes(HYBRID_N_RESULTS) :
            LET r == hybrid_node(state, connector, vector_store, kg, search, "raise")
                        .final_response
                rows == HybridKgResults(state, connector, kg)
                docs == HybridRagDocs(state, vector_store, search)
            IN /\ r.kind = IF rows # <<>> \/ docs > 0 THEN "hybrid_raw"
                           ELSE "hybrid_incomplete"
               /\ r.rows = Take(rows, HYBRID_TOP)
               /\ r.docs = docs
               /\ r.rows # <<>>
                  => connector # "none" /\ kg.kind = "rows" /\ r.rows = Take(kg.rows, HYBRID_TOP)
               /\ r.docs > 0
                  => vector_store # "none" /\ search.kind = "docs" /\ r.docs = search.n

\* the generator failed in Hybrid with rows and a snippet in hand, and the
\* call returned their raw combination
C33_Witness ==
    /\ pc = "returned"
    /\ Entered("hybrid")
    /\ response.kind = "hybrid_raw"
    /\ response.rows # <<>>
    /\ response.docs > 0

\* C34 (as claimed): the conversation context process_query reads from the
\* session is an input of Classify, so for one query and customer id there
\* are two session histories under which the request can be classified,
\* and so routed, differently.
C34_ContextReachesClassifier_Claimed ==
    ( pc = "classifier" /\ session_id # "" /\ memory # "none" )
    => \E c1, c2 \in [SessionIds -> PriorSessions] :
          /\ conversation_context(c1, session_id, memory)
                # conversation_context(c2, session_id, memory)
          /\ Classifications(workflow_input(state.user_query, state.customer_id,
                                            c1, session_id, memory))
                # Classifications(workflow_input(state.user_query, state.customer_id,
                                                c2, session_id, memory))

----------------------------------------------------------------------------
(* The rate limiter (SpecRate) *)

\* C35 (as claimed): the limiter allows at most requests_per_minute
\* requests of an identifier within any minute; an allowed request gets no
\* retry time, a denied one a retry time of at least one second; and a
\* request is denied only when its own identifier has used its allowance.
C35_RateLimited_Claimed ==
    /\ \A i \in Identifiers : Len(granted[i]) <= requests_per_minute
    /\ verdict.allowed => verdict.retry = "None"
    /\ ~verdict.allowed
       => /\ verdict.retry >= 1
          /\ Len(granted[verdict.id]) >= requests_per_minute

----------------------------------------------------------------------------
(* Concurrent process calls on one session (SpecTraffic) *)

\* the messages process calls appended to sid since it was last created,
\* in the order in which their add_message calls took the lock
Turns(sid) == SelectSeq(AcquiredDone(sid), LAMBDA m : m.content > 0)

TurnCalls(sid) == { Turns(sid)[k].content : k \in 1..Len(Turns(sid)) }

\* C37 (as claimed): when two process calls on the same session have
\* returned and each has left a message in it, the session has received
\* all four messages of the two turns since it was created: none was
\* discarded, however the existence checks, create_session and add_message
\* steps of the two calls interleaved.  (Turns is the history before
\* trimming, so the bound max_history plays no part.)
C37_NoTurnLost_Claimed ==
    \A sid \in SessionIds :
        ( /\ \A t \in MemThreads : threads[t].pc = "idle"
          /\ nops = 2
          /\ TurnCalls(sid) = {1, 2} )
        => Len(Turns(sid)) = 4

----------------------------------------------------------------------------
(* Entry conditions of the structured path (Spec) *)

----------------------------------------------------------------------------
(* RagFallback (Spec) *)

\* C39: RagFallback leads to Done with a final_response set, whatever the
\* search and the generator do, and makes at most one search and at most
\* two generation calls; when the search raised or returned nothing, or
\* the generation from the context raised, the response is the one of the
\* general-knowledge generation, and the fixed "could you rephrase"
\* message when that raised too.
C39_RagFallbackEnds ==
    [][ pc = "rag_fallback"
        => /\ pc' = "END"
           /\ state'.final_response.kind \in {"rag_documents", "rag_general", "rag_trouble"}
           /\ \A search \in SearchOutcomes(RAG_N_RESULTS), gen1, gen2 \in GenOutcomes :
                 LET s2 == rag_fallback_node(state, vector_store, search, gen1, gen2)
                     calls == rag_fallback_calls(vector_store, search, gen1)
                     failed == \/ search.kind = "raise"
                               \/ search.n = 0
                               \/ gen1 = "raise"
                 IN /\ ~s2.exc
                    /\ calls.searches <= 1
                    /\ calls.generations <= 2
                    /\ (failed => s2.final_response.kind =
                                     IF gen2 = "ok" THEN "rag_general" ELSE "rag_trouble")
                    /\ (failed /\ vector_store # "none" /\ search.kind = "docs" /\ search.n > 0
                          => calls.generations = 2) ]_vars

\* a general question with the vector store up: both attempts failed and
\* the caller got the fixed message
C39_Witness ==
    /\ pc = "returned"
    /\ vector_store # "none"
    /\ state.intent = "general_question"
    /\ visited = <<"classifier", "rag_fallback", "END">>
    /\ response.kind = "rag_trouble"

----------------------------------------------------------------------------
(* get_history with last_n (SpecSeq) *)

\* C40 (as claimed): get_history(sid, last_n) with an integer last_n >= 0
\* on a session with n messages returns exactly the last min(last_n, n)
\* messages in order, which for last_n = 0 is the empty list.
C40_LastNExact_Claimed ==
    [][ ( Called("get_history") /\ conversations[last'.sid].exists )
        => /\ Len(last'.ret) = Min(last'.n, Len(conversations[last'.sid].messages))
           /\ IsSuffix(last'.ret, conversations[last'.sid].messages) ]_vars

====
